---- MODULE Spec2Model ----
(***************************************************************************)
(* Model of src/src/events.rs: the serenity event handler (`Handler`) and  *)
(* the command hooks `before` / `after` of the discord compiler bot.       *)
(*                                                                         *)
(* Every handler is an asynchronous task; the model gives each task a      *)
(* program counter and one action per stretch of code between two awaits.  *)
(* A lock is modelled by the set of its holders, so that a task waiting    *)
(* for a lock is a task whose next action is disabled.                     *)
(***************************************************************************)
EXTENDS Integers, Sequences, FiniteSets, TLC

(***************************************************************************)
(* Bounds of the model.                                                    *)
(***************************************************************************)
ExpectedShardTotal == 2   \* ready.shard[1], the same in every Ready event
NumReports == 3           \* shard-ready events delivered (duplicates included)
MaxGuilds == 2            \* guild counts carried by a Ready event: 1..MaxGuilds
NumMsgs == 2              \* user messages (attachment messages, commands)
CacheCap == 1             \* capacity of the message cache
TickStep == 10            \* time units that pass in one step of the clock
MaxTime == 40             \* the clock stops here
NumGuildEvents == 2       \* guild-joined and guild-left events delivered

\* core::time::Duration::new(30, 0), line 221
Window == 30

Shards == 0 .. (ExpectedShardTotal - 1)
Reports == 1 .. NumReports
GuildCounts == 1 .. MaxGuilds
Msgs == 1 .. NumMsgs
GuildEvents == 1 .. NumGuildEvents

Bot == NumMsgs + 1                \* the bot's own user, as a reactor
NoUser == -1
Users == Msgs \cup {Bot}          \* the authors of the messages and the bot
AuthorOf(m) == m                  \* new_message.author.id / msg.author.id
NoGuild == 0                      \* line 288: 0 when msg.guild_id is None
TheGuild == 100
BlockIds == Msgs \cup {NoGuild, TheGuild}

Emojis == {"marker", "other"}

LockNames == {"stats", "config", "shardMgr", "cache", "blocklist", "dbl"}
ReadyTask(r) == <<"ready", r>>
DeleteTask(d) == <<"delete", d>>
BeforeTask(c) == <<"before", c>>
GuildTask(g) == <<"guild", g>>

VARIABLES
    \* ---- shared state in ctx.data
    locks,          \* lock name -> set of <<task, mode>>, mode "r" or "w"
    stats,          \* StatsManager: [shards, bootVec, servers]
    tracking,       \* stats.should_track()
    avatarSet,      \* ConfigCache holds BOT_AVATAR
    cache,          \* MessageCache: sequence of [id, reply], oldest first
    blocklist,      \* BlocklistCache: set of ids
    \* ---- one task per shard-ready event
    rpc,            \* position of the ready handler of report r
    ridx,           \* ctx.shard_id of report r
    rcnt,           \* ready.guilds.len() of report r
    \* ---- history of the readiness barrier
    fired,          \* reports whose handler called all_shards_ready
    reported,       \* shard indices that have reported so far
    shardGroups,    \* guild count first reported by each shard (0: none yet)
    wasDup,         \* report r came from a shard that had reported before
    rafter,         \* shard_count() right after report r was added (0: not added)
    published,      \* amounts given to post_servers, in order
    presences,      \* counts given to send_global_presence, in order
    \* ---- one task per attachment message (Handler::message)
    spc,            \* position of the message handler of message m
    now,            \* the clock
    deadline,       \* end of the collection window of m (-1: no collector)
    collected,      \* user whose reaction the collector returned, or NoUser
    reactFailed,    \* posting the marker reaction on m failed
    execCalls,      \* calls of handle_request for m
    outbox,         \* messages the handler of m tried to send, in order
    registered,     \* replies the handler of m inserted into the cache
    \* ---- one task per command (hooks before and after)
    bpc, bguild, bresult, bout, requests,
    apc, aerr, aout, aregistered, executed,
    \* ---- one task per delete notification (Handler::message_delete)
    dpc, dfound, delReqs,
    \* ---- one task per guild event (Handler::guild_create, guild_delete)
    gpc,            \* position of the handler of guild event g
    gkind,          \* "create" or "delete"
    gpubs,          \* calls of dbl.update_stats by g: [count, ok], in order
    gpres,          \* counts given to send_global_presence by g, in order
    \* ---- one task per edit notification (Handler::message_update)
    upc,            \* position of the handler of the edit of message u
    ucontent,       \* new_data.content is Some
    uauthor,        \* new_data.author is Some
    uold,           \* the clone of the cached reply, or NoReply
    ecalls          \* calls of handle_edit for u: [old, afterDelete], in order

sharedVars == <<locks, stats, tracking, avatarSet, cache, blocklist>>
readyVars == <<rpc, ridx, rcnt, fired, reported, shardGroups, wasDup, rafter,
               published, presences>>
sessVars == <<spc, now, deadline, collected, reactFailed, execCalls, outbox,
              registered>>
beforeVars == <<bpc, bguild, bresult, bout, requests>>
afterVars == <<apc, aerr, aout, aregistered, executed>>
delVars == <<dpc, dfound, delReqs>>
guildVars == <<gpc, gkind, gpubs, gpres>>
editVars == <<upc, ucontent, uauthor, uold, ecalls>>

vars == <<sharedVars, readyVars, sessVars, beforeVars, afterVars, delVars,
          guildVars, editVars>>

(***************************************************************************)
(* Locks: tokio Mutex and RwLock.                                          *)
(***************************************************************************)
CanLock(l) == locks[l] = {}
CanRead(l) == \A h \in locks[l] : h[2] = "r"
Acquire(lk, l, t, mode) == [lk EXCEPT ![l] = @ \cup {<<t, mode>>}]
Release(lk, l, t) == [lk EXCEPT ![l] = {h \in @ : h[1] # t}]
ReleaseAll(lk, t) == [l \in LockNames |-> {h \in lk[l] : h[1] # t}]

RECURSIVE SumSeq(_)
SumSeq(s) == IF s = <<>> THEN 0 ELSE Head(s) + SumSeq(Tail(s))

(***************************************************************************)
(* StatsManager, as the handlers use it.                                   *)
(***************************************************************************)
ShardCount(st) == st.shards
ServerCount(st) == st.servers
GetBootVecSum(st) == SumSeq(st.bootVec)
AddShard(st, n) == [st EXCEPT !.shards = @ + 1, !.bootVec = Append(@, n)]
PostServers(st, n) == [st EXCEPT !.servers = n]

(***************************************************************************)
(* MessageCache: a map from the id of a user's message to the bot's reply  *)
(* to it, bounded by evicting the oldest entry.                            *)
(***************************************************************************)
NoReply == [kind |-> "none", to |-> NoUser, key |-> 0]
CacheIds(c) == {c[i].id : i \in 1 .. Len(c)}
CacheGet(c, id) ==
    IF id \in CacheIds(c)
    THEN CHOOSE i \in 1 .. Len(c) : c[i].id = id
    ELSE 0
CacheLookup(c, id) == IF CacheGet(c, id) = 0 THEN NoReply ELSE c[CacheGet(c, id)].reply
CacheRemove(c, id) == LET Other(e) == e.id # id IN SelectSeq(c, Other)
CacheInsert(c, id, reply) ==
    LET put == Append(CacheRemove(c, id), [id |-> id, reply |-> reply])
    IN IF Len(put) > CacheCap THEN Tail(put) ELSE put

(***************************************************************************)
(* Initial state: nothing has arrived yet.                                 *)
(***************************************************************************)
InitShared ==
    /\ locks = [l \in LockNames |-> {}]
    /\ stats = [shards |-> 0, bootVec |-> <<>>, servers |-> 0]
    /\ avatarSet = FALSE
    /\ cache = <<>>

InitReadyVars ==
    /\ rpc = [r \in Reports |-> "idle"]
    /\ ridx = [r \in Reports |-> 0]
    /\ rcnt = [r \in Reports |-> 0]
    /\ fired = {}
    /\ reported = {}
    /\ shardGroups = [s \in Shards |-> 0]
    /\ wasDup = [r \in Reports |-> FALSE]
    /\ rafter = [r \in Reports |-> 0]
    /\ published = <<>>
    /\ presences = <<>>

InitSessVars ==
    /\ spc = [m \in Msgs |-> "idle"]
    /\ now = 0
    /\ deadline = [m \in Msgs |-> -1]
    /\ collected = [m \in Msgs |-> NoUser]
    /\ reactFailed = [m \in Msgs |-> FALSE]
    /\ execCalls = [m \in Msgs |-> 0]
    /\ outbox = [m \in Msgs |-> <<>>]
    /\ registered = [m \in Msgs |-> {}]

InitBeforeVars ==
    /\ bpc = [c \in Msgs |-> "idle"]
    /\ bguild = [c \in Msgs |-> NoGuild]
    /\ bresult = [c \in Msgs |-> "none"]
    /\ bout = [c \in Msgs |-> <<>>]
    /\ requests = 0

InitAfterVars ==
    /\ apc = [c \in Msgs |-> "idle"]
    /\ aerr = [c \in Msgs |-> FALSE]
    /\ aout = [c \in Msgs |-> <<>>]
    /\ aregistered = [c \in Msgs |-> {}]
    /\ executed = [c \in Msgs |-> 0]

InitDelVars ==
    /\ dpc = [d \in Msgs |-> "idle"]
    /\ dfound = [d \in Msgs |-> NoReply]
    /\ delReqs = [d \in Msgs |-> <<>>]

InitGuildVars ==
    /\ gpc = [g \in GuildEvents |-> "idle"]
    /\ gkind = [g \in GuildEvents |-> "create"]
    /\ gpubs = [g \in GuildEvents |-> <<>>]
    /\ gpres = [g \in GuildEvents |-> <<>>]

InitEditVars ==
    /\ upc = [u \in Msgs |-> "idle"]
    /\ ucontent = [u \in Msgs |-> FALSE]
    /\ uauthor = [u \in Msgs |-> FALSE]
    /\ uold = [u \in Msgs |-> NoReply]
    /\ ecalls = [u \in Msgs |-> <<>>]

InitVars ==
    /\ InitShared
    /\ InitReadyVars
    /\ InitSessVars
    /\ InitBeforeVars
    /\ InitAfterVars
    /\ InitDelVars
    /\ InitGuildVars
    /\ InitEditVars

(***************************************************************************)
(* Handler::ready, lines 254-274, with all_shards_ready, lines 41-57.      *)
(***************************************************************************)
\* Lines 262-266: `stats.shard_count()+1 > total_shards_to_spawn`.
\* (IsDuplicateOffByOne is the comparison that lets one report too many in.)
IsDuplicateOffByOne(shards, total) == shards > total
IsDuplicateReady(shards, total) == shards + 1 > total

\* Line 271.  (FiresOffByOne is the comparison that would also fire one report
\* early.)
FiresOffByOne(shards, total) == shards + 1 >= total
AllShardsReported(shards, total) == shards = total

\* The gateway delivers a Ready event of some shard; its handler is spawned
\* and waits for the statistics mutex (lines 254-258).
ReadyArrive(r) ==
    /\ rpc[r] = "idle"
    /\ IF r = 1 THEN TRUE ELSE rpc[r - 1] # "idle"
    /\ \E s \in Shards, g \in GuildCounts :
          /\ ridx' = [ridx EXCEPT ![r] = s]
          /\ rcnt' = [rcnt EXCEPT ![r] = g]
    /\ rpc' = [rpc EXCEPT ![r] = "lockStats"]
    /\ UNCHANGED <<sharedVars, fired, reported, shardGroups, wasDup, rafter,
                   published, presences>>
    /\ UNCHANGED <<sessVars, beforeVars, afterVars, delVars, guildVars,
                   editVars>>

\* Lines 258-273: the mutex is taken, and the duplicate check, add_shard and
\* the comparison with the total run without an await in between.  The guard
\* stays held while all_shards_ready runs and is dropped when ready returns.
ReadyCount(r) ==
    /\ rpc[r] = "lockStats"
    /\ CanLock("stats")
    /\ reported' = reported \cup {ridx[r]}
    /\ wasDup' = [wasDup EXCEPT ![r] = ridx[r] \in reported]
    /\ shardGroups' = IF ridx[r] \in reported THEN shardGroups
                      ELSE [shardGroups EXCEPT ![ridx[r]] = rcnt[r]]
    /\ IF IsDuplicateReady(ShardCount(stats), ExpectedShardTotal)
       THEN /\ rpc' = [rpc EXCEPT ![r] = "skipped"]
            /\ UNCHANGED <<stats, locks, fired, rafter>>
       ELSE /\ stats' = AddShard(stats, rcnt[r])
            /\ rafter' = [rafter EXCEPT ![r] = ShardCount(stats')]
            /\ IF AllShardsReported(ShardCount(stats'), ExpectedShardTotal)
               THEN /\ fired' = fired \cup {r}
                    /\ locks' = Acquire(locks, "stats", ReadyTask(r), "w")
                    /\ rpc' = [rpc EXCEPT ![r] = "asrConfig"]
               ELSE /\ rpc' = [rpc EXCEPT ![r] = "done"]
                    /\ UNCHANGED <<locks, fired>>
    /\ UNCHANGED <<tracking, avatarSet, cache, blocklist, ridx, rcnt,
                   published, presences>>
    /\ UNCHANGED <<sessVars, beforeVars, afterVars, delVars, guildVars,
                   editVars>>

\* all_shards_ready, lines 42-44: the configuration write lock, then BOT_AVATAR.
\* avatar_url() is an Option: the unwrap panics for a bot user without avatar,
\* which ends the task and drops its guards.
AsrLockConfig(r) ==
    /\ rpc[r] = "asrConfig"
    /\ CanLock("config")
    /\ \E hasAvatar \in BOOLEAN :
          IF hasAvatar
          THEN /\ locks' = Acquire(locks, "config", ReadyTask(r), "w")
               /\ avatarSet' = TRUE
               /\ rpc' = [rpc EXCEPT ![r] = "asrShardMgr"]
          ELSE /\ locks' = ReleaseAll(locks, ReadyTask(r))
               /\ rpc' = [rpc EXCEPT ![r] = "panicked"]
               /\ UNCHANGED avatarSet
    /\ UNCHANGED <<stats, tracking, cache, blocklist, ridx, rcnt, fired,
                   reported, shardGroups, wasDup, rafter, published, presences>>
    /\ UNCHANGED <<sessVars, beforeVars, afterVars, delVars, guildVars,
                   editVars>>

\* Line 46: the shard manager mutex.
AsrLockShardMgr(r) ==
    /\ rpc[r] = "asrShardMgr"
    /\ CanLock("shardMgr")
    /\ locks' = Acquire(locks, "shardMgr", ReadyTask(r), "w")
    /\ rpc' = [rpc EXCEPT ![r] = "asrPublish"]
    /\ UNCHANGED <<stats, tracking, avatarSet, cache, blocklist, ridx, rcnt,
                   fired, reported, shardGroups, wasDup, rafter, published,
                   presences>>
    /\ UNCHANGED <<sessVars, beforeVars, afterVars, delVars, guildVars,
                   editVars>>

\* Lines 47-57 and the end of ready: the sum of the boot vector is posted
\* when tracking is on, the presence is sent, and every guard is dropped.
AsrPublish(r) ==
    /\ rpc[r] = "asrPublish"
    /\ LET guild_count == GetBootVecSum(stats)
           st == IF tracking THEN PostServers(stats, guild_count) ELSE stats
       IN /\ stats' = st
          /\ published' = IF tracking THEN Append(published, guild_count)
                          ELSE published
          /\ presences' = Append(presences, ServerCount(st))
    /\ locks' = ReleaseAll(locks, ReadyTask(r))
    /\ rpc' = [rpc EXCEPT ![r] = "done"]
    /\ UNCHANGED <<tracking, avatarSet, cache, blocklist, ridx, rcnt, fired,
                   reported, shardGroups, wasDup, rafter>>
    /\ UNCHANGED <<sessVars, beforeVars, afterVars, delVars, guildVars,
                   editVars>>

NextReady ==
    \E r \in Reports :
        \/ ReadyArrive(r)
        \/ ReadyCount(r)
        \/ AsrLockConfig(r)
        \/ AsrLockShardMgr(r)
        \/ AsrPublish(r)

InitReady ==
    /\ InitVars
    /\ tracking \in BOOLEAN
    /\ blocklist = {}

SpecReady == InitReady /\ [][NextReady]_vars

(***************************************************************************)
(* Claims about the readiness barrier.                                     *)
(***************************************************************************)

\* The shard indices and the counts they first reported, summed.
RECURSIVE SumGroups(_)
SumGroups(S) ==
    IF S = {} THEN 0
    ELSE LET s == CHOOSE x \in S : TRUE
         IN shardGroups[s] + SumGroups(S \ {s})

\* C1: all_shards_ready is called for exactly one report, the one whose
\* add_shard makes shard_count() equal to the expected total, and for no
\* other, however the ready handlers interleave: at most one report has
\* fired, the reports that fired are exactly those that brought the count to
\* the total, and once every shard index has reported one report has fired.
C1_ExactlyOnce ==
    /\ Cardinality(fired) <= 1
    /\ fired = {r \in Reports : rafter[r] = ExpectedShardTotal}
    /\ reported = Shards => Cardinality(fired) = 1
    /\ ShardCount(stats) = ExpectedShardTotal => Cardinality(fired) = 1

\* Every shard index has reported, one report fired and a later one was
\* skipped while others were still waiting for the mutex.
C1_Witness ==
    /\ reported = Shards
    /\ \E r \in fired : rpc[r] = "done"
    /\ \E r \in Reports : rpc[r] = "skipped"

\* C2: a report of a shard index that has already reported is a duplicate,
\* before or after the barrier closes: it is not added to the counters and
\* it does not fire the transition.
C2_DuplicateIgnored ==
    \A r \in Reports : wasDup[r] => (rafter[r] = 0 /\ r \notin fired)

\* C3: when the transition fires, every shard index has reported and the sum
\* of the boot vector is the sum of the counts of the distinct shards.
C3_SumOfDistinctShards ==
    fired # {} =>
        /\ reported = Shards
        /\ GetBootVecSum(stats) = SumGroups(Shards)


(***************************************************************************)
(* Handler::message, lines 194-252: the reaction-gated compile request.    *)
(***************************************************************************)
Reply(m) == [kind |-> "reply", to |-> AuthorOf(m), key |-> m]
FailNotice(m) == [kind |-> "fail", to |-> AuthorOf(m), key |-> m]
Sent(msg, ok) == [msg |-> msg, ok |-> ok]

\* Line 215: `if let Err(_) = react(..) { return }`.  (ReactIgnoresError is
\* the handler that would go on after a failed reaction.)
ReactIgnoresError(ok) == FALSE
ReactAborts(ok) == ~ok

\* Lines 219-222: the collector of message m takes the reactions added to m
\* (message_id) that pass the filter `r.emoji.eq(&reaction)`; it is given no
\* author to wait for.  (CollectorTakesAnyMessage is the collector that
\* would not be bound to its message.)
CollectorTakesAnyMessage(m, on, user, emoji) == emoji = "marker"
CollectorTakes(m, on, user, emoji) == on = m /\ emoji = "marker"

\* Line 224: `if let Some(_) = collector`.  (CollectorAlwaysSome is the
\* handler that would not look at what the collector returned.)
CollectorAlwaysSome(c) == TRUE
CollectorReturned(c) == c # NoUser

\* Lines 235-236: the failure notice goes into the cache under new_message.id.
\* (FailNoticeNotKept is the handler that would send it and forget it.)
FailNoticeNotKept(c, m) == c
RegisterFailNotice(c, m) == CacheInsert(c, m, FailNotice(m))

\* Lines 195-203: a message arrives; it qualifies when it has an attachment
\* that get_message_attachment accepts and whose language resolves to a target.
MessageArrive(m) ==
    /\ spc[m] = "idle"
    /\ IF m = 1 THEN TRUE ELSE spc[m - 1] # "idle"
    /\ \E qualifies \in BOOLEAN :
          spc' = [spc EXCEPT ![m] = IF qualifies THEN "react" ELSE "ignored"]
    /\ UNCHANGED <<now, deadline, collected, reactFailed, execCalls, outbox,
                   registered>>
    /\ UNCHANGED <<sharedVars, readyVars, beforeVars, afterVars, delVars,
                   guildVars, editVars>>

\* Lines 204-222: the marker reaction is posted; on an error the handler
\* returns, otherwise the collector is created with its timeout.
MessageReact(m) ==
    /\ spc[m] = "react"
    /\ \E ok \in BOOLEAN :
          /\ reactFailed' = [reactFailed EXCEPT ![m] = ~ok]
          /\ IF ReactAborts(ok)
             THEN /\ spc' = [spc EXCEPT ![m] = "aborted"]
                  /\ UNCHANGED deadline
             ELSE /\ spc' = [spc EXCEPT ![m] = "collect"]
                  /\ deadline' = [deadline EXCEPT ![m] = now + Window]
    /\ UNCHANGED <<now, collected, execCalls, outbox, registered>>
    /\ UNCHANGED <<sharedVars, readyVars, beforeVars, afterVars, delVars,
                   guildVars, editVars>>

\* Line 221: `.timeout(Duration::new(30, 0))`: the collector takes a reaction
\* until its timeout has passed.  (AtOrBeforeDeadline is the collector that
\* would still take a reaction at the instant of the timeout.)
AtOrBeforeDeadline(t, d) == t <= d
BeforeDeadline(t, d) == t < d

\* A user adds a reaction to a message while some collector is waiting.
\* Every waiting collector whose timeout has not passed and that takes the
\* reaction returns it; a returned collector is dropped with its timeout.
ReactionAdd(u, e, on) ==
    /\ \E m \in Msgs : spc[m] = "collect"
    /\ LET takers == {m \in Msgs : /\ spc[m] = "collect"
                                   /\ BeforeDeadline(now, deadline[m])
                                   /\ CollectorTakes(m, on, u, e)}
       IN /\ collected' = [m \in Msgs |-> IF m \in takers THEN u ELSE collected[m]]
          /\ deadline' = [m \in Msgs |-> IF m \in takers THEN -1 ELSE deadline[m]]
          /\ spc' = [m \in Msgs |-> IF m \in takers THEN "strip" ELSE spc[m]]
    /\ UNCHANGED <<now, reactFailed, execCalls, outbox, registered>>
    /\ UNCHANGED <<sharedVars, readyVars, beforeVars, afterVars, delVars,
                   guildVars, editVars>>

\* Time passes.
Tick ==
    /\ now + TickStep <= MaxTime
    /\ now' = now + TickStep
    /\ UNCHANGED <<spc, deadline, collected, reactFailed, execCalls, outbox,
                   registered>>
    /\ UNCHANGED <<sharedVars, readyVars, beforeVars, afterVars, delVars,
                   guildVars, editVars>>

\* Line 221: the timeout of the collector passes; it returns None.
CollectTimeout(m) ==
    /\ spc[m] = "collect"
    /\ now >= deadline[m]
    /\ deadline' = [deadline EXCEPT ![m] = -1]
    /\ spc' = [spc EXCEPT ![m] = "strip"]
    /\ UNCHANGED <<now, collected, reactFailed, execCalls, outbox, registered>>
    /\ UNCHANGED <<sharedVars, readyVars, beforeVars, afterVars, delVars,
                   guildVars, editVars>>

\* Lines 223-225: the reactions are removed (the result is dropped); with a
\* collected reaction handle_request is called, without one the handler ends.
MessageStrip(m) ==
    /\ spc[m] = "strip"
    /\ IF CollectorReturned(collected[m])
       THEN /\ spc' = [spc EXCEPT ![m] = "exec"]
            /\ execCalls' = [execCalls EXCEPT ![m] = @ + 1]
       ELSE /\ spc' = [spc EXCEPT ![m] = "expired"]
            /\ UNCHANGED execCalls
    /\ UNCHANGED <<now, deadline, collected, reactFailed, outbox, registered>>
    /\ UNCHANGED <<sharedVars, readyVars, beforeVars, afterVars, delVars,
                   guildVars, editVars>>

\* Lines 225-227 and 241-246: handle_request returns Ok(emb); the result is
\* sent as a reply that references the message, and the outcome of the send
\* is dropped.
MessageExecutedOk(m) ==
    /\ spc[m] = "exec"
    /\ \E ok \in BOOLEAN :
          outbox' = [outbox EXCEPT ![m] = Append(@, Sent(Reply(m), ok))]
    /\ spc' = [spc EXCEPT ![m] = "completed"]
    /\ UNCHANGED <<now, deadline, collected, reactFailed, execCalls,
                   registered>>
    /\ UNCHANGED <<sharedVars, readyVars, beforeVars, afterVars, delVars,
                   guildVars, editVars>>

\* Lines 225-234 and 238: handle_request returns Err(e); the failure notice
\* is sent, and when the send fails the handler returns.
MessageExecutedErr(m) ==
    /\ spc[m] = "exec"
    /\ \E ok \in BOOLEAN :
          /\ outbox' = [outbox EXCEPT ![m] = Append(@, Sent(FailNotice(m), ok))]
          /\ spc' = [spc EXCEPT ![m] = IF ok THEN "cacheInsert" ELSE "failed"]
    /\ UNCHANGED <<now, deadline, collected, reactFailed, execCalls,
                   registered>>
    /\ UNCHANGED <<sharedVars, readyVars, beforeVars, afterVars, delVars,
                   guildVars, editVars>>

\* Lines 235-238: the cache mutex is taken, the sent notice is inserted and
\* the handler returns.
MessageCacheInsert(m) ==
    /\ spc[m] = "cacheInsert"
    /\ CanLock("cache")
    /\ cache' = RegisterFailNotice(cache, m)
    /\ registered' = [registered EXCEPT ![m] =
                         (@ \cup {CacheLookup(cache', m)}) \ {NoReply}]
    /\ spc' = [spc EXCEPT ![m] = "failed"]
    /\ UNCHANGED <<now, deadline, collected, reactFailed, execCalls, outbox>>
    /\ UNCHANGED <<locks, stats, tracking, avatarSet, blocklist>>
    /\ UNCHANGED <<readyVars, beforeVars, afterVars, delVars, guildVars,
                   editVars>>

NextSession ==
    \/ \E m \in Msgs :
          \/ MessageArrive(m)
          \/ MessageReact(m)
          \/ CollectTimeout(m)
          \/ MessageStrip(m)
          \/ MessageExecutedOk(m)
          \/ MessageExecutedErr(m)
          \/ MessageCacheInsert(m)
    \/ \E u \in Users, e \in Emojis, on \in Msgs : ReactionAdd(u, e, on)
    \/ Tick

InitSession ==
    /\ InitVars
    /\ tracking = FALSE
    /\ blocklist = {}

SpecSession == InitSession /\ [][NextSession]_vars


(***************************************************************************)
(* Claims about the confirmation session.                                  *)
(***************************************************************************)
AfterCollect == {"strip", "exec", "cacheInsert", "completed", "failed", "expired"}

\* C4: the session of message m is confirmed, and handle_request is called,
\* only for a matching reaction of the author of m; a reaction of any other
\* user, the bot included, never confirms it.
C4_OnlyAuthorConfirms ==
    \A m \in Msgs :
        /\ collected[m] # NoUser => collected[m] = AuthorOf(m)
        /\ execCalls[m] > 0 => collected[m] = AuthorOf(m)

\* C5: when handle_request succeeded, exactly one reply that references the
\* message was sent and, when the send went through, that reply is registered
\* in the message cache.
C5_ReplyRegistered ==
    \A m \in Msgs :
        spc[m] = "completed" =>
            /\ Len(outbox[m]) = 1
            /\ outbox[m][1].msg = Reply(m)
            /\ outbox[m][1].ok => Reply(m) \in registered[m]

\* C6: when handle_request returned an error, exactly one message was sent,
\* the failure notice addressed to the author; it was registered under the id
\* of the triggering message (a lookup right after the insert returned it)
\* when its send succeeded, and no success reply was sent.
C6_FailureNotice ==
    \A m \in Msgs :
        /\ spc[m] = "cacheInsert" => outbox[m] = <<Sent(FailNotice(m), TRUE)>>
        /\ spc[m] = "failed" =>
              /\ execCalls[m] = 1
              /\ Len(outbox[m]) = 1
              /\ outbox[m][1].msg = FailNotice(m)
              /\ outbox[m][1].msg.to = AuthorOf(m)
              /\ outbox[m][1].ok => registered[m] = {FailNotice(m)}
              /\ ~outbox[m][1].ok => registered[m] = {}

\* A failed session whose notice was sent and is in the cache under its id.
C6_Witness ==
    \E m \in Msgs :
        /\ spc[m] = "failed"
        /\ outbox[m][1].ok
        /\ CacheLookup(cache, m) = FailNotice(m)

\* C7: a session whose collector timed out ends expired: handle_request is
\* never called, nothing is sent, the session inserts nothing into the cache,
\* and the steps that end it leave the cache as it is.
C7_ExpiredState ==
    \A m \in Msgs :
        (spc[m] \in AfterCollect /\ collected[m] = NoUser) =>
            /\ spc[m] \in {"strip", "expired"}
            /\ execCalls[m] = 0
            /\ outbox[m] = <<>>
            /\ registered[m] = {}

C7_ExpiryStep ==
    \A m \in Msgs :
        (/\ spc[m] \in {"collect", "strip"}
         /\ spc'[m] # spc[m]
         /\ collected'[m] = NoUser) =>
            /\ spc'[m] \in {"strip", "expired"}
            /\ cache' = cache
            /\ outbox' = outbox

C7_SilentExpiry == [](C7_ExpiredState) /\ [][C7_ExpiryStep]_vars

\* A session expired after its whole window had passed.
C7_Witness ==
    \E m \in Msgs : spc[m] = "expired" /\ now >= Window

\* C8: when posting the marker reaction failed the session is aborted: no
\* collector was created, handle_request was not called, nothing was sent
\* and nothing was inserted into the cache.
C8_ReactFailureAborts ==
    \A m \in Msgs :
        reactFailed[m] =>
            /\ spc[m] = "aborted"
            /\ deadline[m] = -1
            /\ collected[m] = NoUser
            /\ execCalls[m] = 0
            /\ outbox[m] = <<>>
            /\ registered[m] = {}

\* One session aborted while another one is armed.
C8_Witness ==
    \E m, k \in Msgs :
        /\ reactFailed[m]
        /\ spc[m] = "aborted"
        /\ spc[k] = "collect"


(***************************************************************************)
(* The hook `before`, lines 278-319.                                       *)
(***************************************************************************)
Denial(c) == [kind |-> "denial", to |-> AuthorOf(c), key |-> c]
CmdFail(c) == [kind |-> "fail", to |-> AuthorOf(c), key |-> c]

\* Lines 295-299: author_blocklisted || guild_blocklisted.  (BlockedAuthorOnly
\* is the check that would forget the guild.)
BlockedAuthorOnly(bl, author, guild) == author \in bl
Blocked(bl, author, guild) == author \in bl \/ guild \in bl

\* A command of message c is about to be dispatched, from a guild or not
\* (lines 287-291: guild_id stays 0 without a guild).
BeforeArrive(c) ==
    /\ bpc[c] = "idle"
    /\ IF c = 1 THEN TRUE ELSE bpc[c - 1] # "idle"
    /\ \E g \in {NoGuild, TheGuild} : bguild' = [bguild EXCEPT ![c] = g]
    /\ bpc' = [bpc EXCEPT ![c] = "stats"]
    /\ UNCHANGED <<bresult, bout, requests>>
    /\ UNCHANGED <<sharedVars, readyVars, sessVars, afterVars, delVars,
                   guildVars, editVars>>

\* Lines 280-282: the statistics mutex; without tracking it is dropped at once.
BeforeLockStats(c) ==
    /\ bpc[c] = "stats"
    /\ CanLock("stats")
    /\ IF tracking
       THEN /\ locks' = Acquire(locks, "stats", BeforeTask(c), "w")
            /\ bpc' = [bpc EXCEPT ![c] = "post"]
       ELSE /\ bpc' = [bpc EXCEPT ![c] = "check"]
            /\ UNCHANGED locks
    /\ UNCHANGED <<stats, tracking, avatarSet, cache, blocklist>>
    /\ UNCHANGED <<bguild, bresult, bout, requests>>
    /\ UNCHANGED <<readyVars, sessVars, afterVars, delVars, guildVars,
                   editVars>>

\* Lines 283-285: post_request, then the guard is dropped.
BeforePostRequest(c) ==
    /\ bpc[c] = "post"
    /\ requests' = requests + 1
    /\ locks' = Release(locks, "stats", BeforeTask(c))
    /\ bpc' = [bpc EXCEPT ![c] = "check"]
    /\ UNCHANGED <<stats, tracking, avatarSet, cache, blocklist>>
    /\ UNCHANGED <<bguild, bresult, bout>>
    /\ UNCHANGED <<readyVars, sessVars, afterVars, delVars, guildVars,
                   editVars>>

\* Lines 295-299 and 318: the blocklist is read; when neither id is in it the
\* hook returns true, otherwise the read guard is kept for the denial.
BeforeCheck(c) ==
    /\ bpc[c] = "check"
    /\ CanRead("blocklist")
    /\ IF Blocked(blocklist, AuthorOf(c), bguild[c])
       THEN /\ locks' = Acquire(locks, "blocklist", BeforeTask(c), "r")
            /\ bpc' = [bpc EXCEPT ![c] = "deny"]
            /\ UNCHANGED bresult
       ELSE /\ bresult' = [bresult EXCEPT ![c] = "proceed"]
            /\ bpc' = [bpc EXCEPT ![c] = "done"]
            /\ UNCHANGED locks
    /\ UNCHANGED <<stats, tracking, avatarSet, cache, blocklist>>
    /\ UNCHANGED <<bguild, bout, requests>>
    /\ UNCHANGED <<readyVars, sessVars, afterVars, delVars, guildVars,
                   editVars>>

\* Lines 300-314: the denial is sent; whatever the send returns (it decides
\* only whether the block is logged) the hook returns false.
BeforeDeny(c) ==
    /\ bpc[c] = "deny"
    /\ \E ok \in BOOLEAN :
          bout' = [bout EXCEPT ![c] = Append(@, Sent(Denial(c), ok))]
    /\ bresult' = [bresult EXCEPT ![c] = "deny"]
    /\ locks' = Release(locks, "blocklist", BeforeTask(c))
    /\ bpc' = [bpc EXCEPT ![c] = "done"]
    /\ UNCHANGED <<stats, tracking, avatarSet, cache, blocklist>>
    /\ UNCHANGED <<bguild, requests>>
    /\ UNCHANGED <<readyVars, sessVars, afterVars, delVars, guildVars,
                   editVars>>

(***************************************************************************)
(* The hook `after`, lines 322-349.                                        *)
(***************************************************************************)
AfterTask(c) == <<"after", c>>

\* Line 330: `if let Err(e) = command_result`.  (AfterRepliesAlways is the
\* hook that would answer a successful command too.)
AfterRepliesAlways(err) == TRUE
AfterReplies(err) == err

\* The command of message c has run, with an error or without (line 330).
AfterArrive(c) ==
    /\ apc[c] = "idle"
    /\ \E err \in BOOLEAN :
          /\ aerr' = [aerr EXCEPT ![c] = err]
          /\ apc' = [apc EXCEPT ![c] = IF AfterReplies(err) THEN "send"
                                       ELSE "metric"]
    /\ UNCHANGED <<aout, aregistered, executed>>
    /\ UNCHANGED <<sharedVars, readyVars, sessVars, beforeVars, delVars,
                   guildVars, editVars>>

\* Lines 331-337: the failure reply is sent.  (AfterSendReturnsOnError is the
\* hook that would return when the reply could not be sent.)
AfterSendReturnsOnError(c) ==
    /\ apc[c] = "send"
    /\ \E ok \in BOOLEAN :
          /\ aout' = [aout EXCEPT ![c] = Append(@, Sent(CmdFail(c), ok))]
          /\ apc' = [apc EXCEPT ![c] = IF ok THEN "insert" ELSE "done"]
    /\ UNCHANGED <<aerr, aregistered, executed>>
    /\ UNCHANGED <<sharedVars, readyVars, sessVars, beforeVars, delVars,
                   guildVars, editVars>>

AfterSend(c) ==
    /\ apc[c] = "send"
    /\ \E ok \in BOOLEAN :
          /\ aout' = [aout EXCEPT ![c] = Append(@, Sent(CmdFail(c), ok))]
          /\ apc' = [apc EXCEPT ![c] = IF ok THEN "insert" ELSE "metric"]
    /\ UNCHANGED <<aerr, aregistered, executed>>
    /\ UNCHANGED <<sharedVars, readyVars, sessVars, beforeVars, delVars,
                   guildVars, editVars>>

\* Lines 338-340: the sent reply goes into the cache under msg.id.
AfterInsert(c) ==
    /\ apc[c] = "insert"
    /\ CanLock("cache")
    /\ cache' = CacheInsert(cache, c, CmdFail(c))
    /\ aregistered' = [aregistered EXCEPT ![c] =
                          (@ \cup {CacheLookup(cache', c)}) \ {NoReply}]
    /\ apc' = [apc EXCEPT ![c] = "metric"]
    /\ UNCHANGED <<locks, stats, tracking, avatarSet, blocklist>>
    /\ UNCHANGED <<aerr, aout, executed>>
    /\ UNCHANGED <<readyVars, sessVars, beforeVars, delVars, guildVars,
                   editVars>>

\* Lines 345-346: the statistics mutex; without tracking the hook returns.
AfterLockStats(c) ==
    /\ apc[c] = "metric"
    /\ CanLock("stats")
    /\ IF tracking
       THEN /\ locks' = Acquire(locks, "stats", AfterTask(c), "w")
            /\ apc' = [apc EXCEPT ![c] = "post"]
       ELSE /\ apc' = [apc EXCEPT ![c] = "done"]
            /\ UNCHANGED locks
    /\ UNCHANGED <<stats, tracking, avatarSet, cache, blocklist>>
    /\ UNCHANGED <<aerr, aout, aregistered, executed>>
    /\ UNCHANGED <<readyVars, sessVars, beforeVars, delVars, guildVars,
                   editVars>>

\* Lines 347-349: command_executed, then the guard is dropped.
AfterCommandExecuted(c) ==
    /\ apc[c] = "post"
    /\ executed' = [executed EXCEPT ![c] = @ + 1]
    /\ locks' = Release(locks, "stats", AfterTask(c))
    /\ apc' = [apc EXCEPT ![c] = "done"]
    /\ UNCHANGED <<stats, tracking, avatarSet, cache, blocklist>>
    /\ UNCHANGED <<aerr, aout, aregistered>>
    /\ UNCHANGED <<readyVars, sessVars, beforeVars, delVars, guildVars,
                   editVars>>

(***************************************************************************)
(* Handler::message_delete, lines 143-152.                                 *)
(***************************************************************************)
DeleteRequest(reply, ok) == [msg |-> reply, ok |-> ok]

\* Lines 147-150: the entry is removed whether msg.delete succeeded or not.
\* (RemoveOnlyIfDeleted is the handler that would keep the entry of a reply
\* it could not delete.)
RemoveOnlyIfDeleted(c, id, ok) == IF ok THEN CacheRemove(c, id) ELSE c
RemoveAfterDelete(c, id, ok) == CacheRemove(c, id)

\* The gateway reports that message d was deleted (a message is deleted once).
DeleteArrive(d) ==
    /\ dpc[d] = "idle"
    /\ dpc' = [dpc EXCEPT ![d] = "lock"]
    /\ UNCHANGED <<dfound, delReqs>>
    /\ UNCHANGED <<sharedVars, readyVars, sessVars, beforeVars, afterVars,
                   guildVars, editVars>>

\* Lines 144-146: the cache mutex, then the lookup; without an entry the
\* handler returns, with one the guard is kept while the reply is deleted.
DeleteLookup(d) ==
    /\ dpc[d] = "lock"
    /\ CanLock("cache")
    /\ dfound' = [dfound EXCEPT ![d] = CacheLookup(cache, d)]
    /\ IF CacheLookup(cache, d) # NoReply
       THEN /\ locks' = Acquire(locks, "cache", DeleteTask(d), "w")
            /\ dpc' = [dpc EXCEPT ![d] = "deleting"]
       ELSE /\ dpc' = [dpc EXCEPT ![d] = "done"]
            /\ UNCHANGED locks
    /\ UNCHANGED <<stats, tracking, avatarSet, cache, blocklist>>
    /\ UNCHANGED delReqs
    /\ UNCHANGED <<readyVars, sessVars, beforeVars, afterVars, guildVars,
                   editVars>>

\* Lines 147-151: msg.delete returns, its error is ignored, the entry is
\* removed and the guard is dropped.
DeleteReply(d) ==
    /\ dpc[d] = "deleting"
    /\ \E ok \in BOOLEAN :
          /\ delReqs' = [delReqs EXCEPT ![d] =
                            Append(@, DeleteRequest(dfound[d], ok))]
          /\ cache' = RemoveAfterDelete(cache, d, ok)
    /\ locks' = Release(locks, "cache", DeleteTask(d))
    /\ dpc' = [dpc EXCEPT ![d] = "done"]
    /\ UNCHANGED <<stats, tracking, avatarSet, blocklist>>
    /\ UNCHANGED dfound
    /\ UNCHANGED <<readyVars, sessVars, beforeVars, afterVars, guildVars,
                   editVars>>

NextBefore ==
    \E c \in Msgs :
        \/ BeforeArrive(c)
        \/ BeforeLockStats(c)
        \/ BeforePostRequest(c)
        \/ BeforeCheck(c)
        \/ BeforeDeny(c)

InitBefore ==
    /\ InitVars
    /\ tracking \in BOOLEAN
    /\ blocklist \in SUBSET BlockIds

SpecBefore == InitBefore /\ [][NextBefore]_vars

NextCache ==
    \E c \in Msgs :
        \/ AfterArrive(c)
        \/ AfterSend(c)
        \/ AfterInsert(c)
        \/ AfterLockStats(c)
        \/ AfterCommandExecuted(c)
        \/ DeleteArrive(c)
        \/ DeleteLookup(c)
        \/ DeleteReply(c)

InitCache ==
    /\ InitVars
    /\ tracking \in BOOLEAN
    /\ blocklist = {}

SpecCache == InitCache /\ [][NextCache]_vars


(***************************************************************************)
(* Claims about `before` and message_delete.                               *)
(***************************************************************************)

\* C9: `before` returns false exactly when the author's id or the guild id
\* (0 without a guild) is in the blocklist; then exactly one denial is sent,
\* whether or not the send succeeds, and otherwise nothing is sent and the
\* hook returns true.
C9_BlockedIffDenied ==
    \A c \in Msgs :
        bpc[c] = "done" =>
            /\ bresult[c] \in {"deny", "proceed"}
            /\ bresult[c] = "deny" <=>
                  (AuthorOf(c) \in blocklist \/ bguild[c] \in blocklist)
            /\ bresult[c] = "deny" =>
                  /\ Len(bout[c]) = 1
                  /\ bout[c][1].msg = Denial(c)
            /\ bresult[c] = "proceed" => bout[c] = <<>>

\* A command from a blocked guild, by an author who is not blocked, was
\* denied although the denial could not be sent, and another command was let
\* through.
C9_Witness ==
    \E c, k \in Msgs :
        /\ bpc[c] = "done"
        /\ AuthorOf(c) \notin blocklist
        /\ bguild[c] \in blocklist
        /\ bresult[c] = "deny"
        /\ ~bout[c][1].ok
        /\ bpc[k] = "done"
        /\ bresult[k] = "proceed"

\* C10: a delete notification for an id in the cache requests the deletion of
\* the tracked reply exactly once, and the entry is gone afterwards whether
\* the deletion succeeded or not; a notification for an id that is not in the
\* cache requests nothing and leaves the cache as it is.
C10_DeleteState ==
    \A d \in Msgs :
        /\ Len(delReqs[d]) <= 1
        /\ dpc[d] = "done" =>
              IF dfound[d] = NoReply
              THEN delReqs[d] = <<>>
              ELSE /\ Len(delReqs[d]) = 1
                   /\ delReqs[d][1].msg = dfound[d]

C10_DeleteStep ==
    \A d \in Msgs :
        /\ (dpc[d] = "lock" /\ dpc'[d] # "lock") =>
              IF CacheLookup(cache, d) = NoReply
              THEN /\ dpc'[d] = "done"
                   /\ cache' = cache
                   /\ delReqs'[d] = <<>>
              ELSE /\ dpc'[d] = "deleting"
                   /\ dfound'[d] = CacheLookup(cache, d)
        /\ (dpc[d] = "deleting" /\ dpc'[d] # "deleting") =>
              /\ dpc'[d] = "done"
              /\ CacheLookup(cache', d) = NoReply
              /\ \A k \in Msgs \ {d} : CacheLookup(cache', k) = CacheLookup(cache, k)

C10_DeleteReconciles == [](C10_DeleteState) /\ [][C10_DeleteStep]_vars

\* The deletion of a tracked reply failed, and its entry is gone, while
\* another notification found nothing in the cache.
C10_Witness ==
    \E d, k \in Msgs :
        /\ dpc[d] = "done"
        /\ dfound[d] = CmdFail(d)
        /\ ~delReqs[d][1].ok
        /\ CacheLookup(cache, d) = NoReply
        /\ dpc[k] = "done"
        /\ dfound[k] = NoReply


(***************************************************************************)
(* Handler::guild_create, lines 83-141, and Handler::guild_delete, lines   *)
(* 154-192.                                                                *)
(***************************************************************************)
\* `publish/queue new server to stats` (line 102) and its counterpart of line
\* 167: the stored server count follows joins and leaves once it has been
\* posted; before that a join or leave is queued and the count stays 0.
NewServer(st) == IF st.servers > 0 THEN [st EXCEPT !.servers = @ + 1] ELSE st
LeaveServer(st) == IF st.servers > 0 THEN [st EXCEPT !.servers = @ - 1] ELSE st

\* Lines 109 and 174: `stats.server_count() > 0`.  (LoadedInAlways is the
\* comparison that lets a count of 0 through.)
LoadedInAlways(st) == ServerCount(st) >= 0
LoadedIn(st) == ServerCount(st) > 0

\* tokio's RwLock is write-preferring: a read is granted when no writer holds
\* the lock and none is queued for it.  The only writer of a lock in this
\* file is all_shards_ready, line 43.
WriterQueued(l) == l = "config" /\ \E r \in Reports : rpc[r] = "asrConfig"
CanReadFair(l) == CanRead(l) /\ ~WriterQueued(l)

\* The gateway delivers a guild event.  guild_create returns at once unless
\* the guild was joined within the last 30 seconds (lines 84-87).
GuildArrive(g) ==
    /\ gpc[g] = "idle"
    /\ IF g = 1 THEN TRUE ELSE gpc[g - 1] # "idle"
    /\ \E kind \in {"create", "delete"}, recent \in BOOLEAN :
          /\ gkind' = [gkind EXCEPT ![g] = kind]
          /\ gpc' = [gpc EXCEPT ![g] = IF kind = "create" /\ ~recent
                                       THEN "done" ELSE "lockConfig"]
    /\ UNCHANGED <<gpubs, gpres>>
    /\ UNCHANGED <<sharedVars, readyVars, sessVars, beforeVars, afterVars,
                   delVars, editVars>>

\* Lines 91 and 158: the read guard of the configuration.
GuildLockConfig(g) ==
    /\ gpc[g] = "lockConfig"
    /\ CanReadFair("config")
    /\ locks' = Acquire(locks, "config", GuildTask(g), "r")
    /\ gpc' = [gpc EXCEPT ![g] = "log"]
    /\ UNCHANGED <<stats, tracking, avatarSet, cache, blocklist>>
    /\ UNCHANGED <<gkind, gpubs, gpres>>
    /\ UNCHANGED <<readyVars, sessVars, beforeVars, afterVars, delVars,
                   editVars>>

\* Lines 92-100 and 159-165: the join or leave log is dispatched under the
\* read guard.  guild_create took the guard inside a block and drops it at
\* line 100; guild_delete took it in the body of the function and keeps it
\* until it returns.
GuildLog(g) ==
    /\ gpc[g] = "log"
    /\ locks' = IF gkind[g] = "create" THEN Release(locks, "config", GuildTask(g))
                ELSE locks
    /\ gpc' = [gpc EXCEPT ![g] = "lockStats"]
    /\ UNCHANGED <<stats, tracking, avatarSet, cache, blocklist>>
    /\ UNCHANGED <<gkind, gpubs, gpres>>
    /\ UNCHANGED <<readyVars, sessVars, beforeVars, afterVars, delVars,
                   editVars>>

\* Lines 103-116 and 168-181: the statistics mutex, new_server or
\* leave_server when tracking is on, the test of the server count, and the
\* read guard of the dbl client, which nothing ever writes.
GuildLockStats(g) ==
    /\ gpc[g] = "lockStats"
    /\ CanLock("stats")
    /\ stats' = IF ~tracking THEN stats
                ELSE IF gkind[g] = "create" THEN NewServer(stats)
                ELSE LeaveServer(stats)
    /\ IF LoadedIn(stats')
       THEN /\ locks' = Acquire(Acquire(locks, "stats", GuildTask(g), "w"),
                                "dbl", GuildTask(g), "r")
            /\ gpc' = [gpc EXCEPT ![g] = "publish"]
       ELSE IF gkind[g] = "create"
       THEN /\ locks' = Acquire(locks, "stats", GuildTask(g), "w")
            /\ gpc' = [gpc EXCEPT ![g] = "welcome"]
       ELSE /\ locks' = ReleaseAll(locks, GuildTask(g))
            /\ gpc' = [gpc EXCEPT ![g] = "done"]
    /\ UNCHANGED <<tracking, avatarSet, cache, blocklist>>
    /\ UNCHANGED <<gkind, gpubs, gpres>>
    /\ UNCHANGED <<readyVars, sessVars, beforeVars, afterVars, delVars,
                   editVars>>

\* Lines 117-119 and 182-184: update_stats is awaited once; an error is
\* written to the log and the handler goes on.
GuildPublish(g) ==
    /\ gpc[g] = "publish"
    /\ \E ok \in BOOLEAN :
          gpubs' = [gpubs EXCEPT ![g] =
                       Append(@, [count |-> ServerCount(stats), ok |-> ok])]
    /\ gpc' = [gpc EXCEPT ![g] = "lockShardMgr"]
    /\ UNCHANGED <<gkind, gpres>>
    /\ UNCHANGED <<sharedVars, readyVars, sessVars, beforeVars, afterVars,
                   delVars, editVars>>

\* Lines 122 and 187: the shard manager mutex.
GuildLockShardMgr(g) ==
    /\ gpc[g] = "lockShardMgr"
    /\ CanLock("shardMgr")
    /\ locks' = Acquire(locks, "shardMgr", GuildTask(g), "w")
    /\ gpc' = [gpc EXCEPT ![g] = "presence"]
    /\ UNCHANGED <<stats, tracking, avatarSet, cache, blocklist>>
    /\ UNCHANGED <<gkind, gpubs, gpres>>
    /\ UNCHANGED <<readyVars, sessVars, beforeVars, afterVars, delVars,
                   editVars>>

\* Lines 123-124 and 188-192: the presence is sent.  guild_create drops the
\* dbl and shard manager guards and goes on to the welcome message;
\* guild_delete returns and drops every guard.
GuildPresence(g) ==
    /\ gpc[g] = "presence"
    /\ gpres' = [gpres EXCEPT ![g] = Append(@, ServerCount(stats))]
    /\ IF gkind[g] = "create"
       THEN /\ locks' = Release(Release(locks, "shardMgr", GuildTask(g)),
                                "dbl", GuildTask(g))
            /\ gpc' = [gpc EXCEPT ![g] = "welcome"]
       ELSE /\ locks' = ReleaseAll(locks, GuildTask(g))
            /\ gpc' = [gpc EXCEPT ![g] = "done"]
    /\ UNCHANGED <<stats, tracking, avatarSet, cache, blocklist>>
    /\ UNCHANGED <<gkind, gpubs>>
    /\ UNCHANGED <<readyVars, sessVars, beforeVars, afterVars, delVars,
                   editVars>>

\* Lines 126-140: the welcome message is sent to the system channel, the
\* result of the send is dropped, and the statistics guard is dropped when
\* the handler returns.
GuildWelcome(g) ==
    /\ gpc[g] = "welcome"
    /\ locks' = ReleaseAll(locks, GuildTask(g))
    /\ gpc' = [gpc EXCEPT ![g] = "done"]
    /\ UNCHANGED <<stats, tracking, avatarSet, cache, blocklist>>
    /\ UNCHANGED <<gkind, gpubs, gpres>>
    /\ UNCHANGED <<readyVars, sessVars, beforeVars, afterVars, delVars,
                   editVars>>

NextJoinLeave ==
    \E g \in GuildEvents :
        \/ GuildArrive(g)
        \/ GuildLockConfig(g)
        \/ GuildLog(g)
        \/ GuildLockStats(g)
        \/ GuildPublish(g)
        \/ GuildLockShardMgr(g)
        \/ GuildPresence(g)
        \/ GuildWelcome(g)

\* Guild events while the shards report in.
NextGuild == NextReady \/ NextJoinLeave

InitGuild ==
    /\ InitVars
    /\ tracking \in BOOLEAN
    /\ blocklist = {}

SpecGuild == InitGuild /\ [][NextGuild]_vars


(***************************************************************************)
(* Claims about the locks of the handlers.                                 *)
(***************************************************************************)
Tasks == {ReadyTask(r) : r \in Reports} \cup {GuildTask(g) : g \in GuildEvents}
Holders(l) == {h[1] : h \in locks[l]}
LocksHeldBy(t) == {l \in LockNames : t \in Holders(l)}

\* C11: no handler holds more than one of the locks of the shared state
\* (statistics, configuration, message cache, blocklist, shard manager, dbl
\* client) at the same time.
C11_OneLockAtATime == \A t \in Tasks : Cardinality(LocksHeldBy(t)) <= 1

\* The lock a task is waiting for, "none" when it is not waiting.
WaitsFor(t) ==
    IF t[1] = "ready"
    THEN CASE rpc[t[2]] = "lockStats" -> "stats"
           [] rpc[t[2]] = "asrConfig" -> "config"
           [] rpc[t[2]] = "asrShardMgr" -> "shardMgr"
           [] OTHER -> "none"
    ELSE CASE gpc[t[2]] = "lockConfig" -> "config"
           [] gpc[t[2]] = "lockStats" -> "stats"
           [] gpc[t[2]] = "lockShardMgr" -> "shardMgr"
           [] OTHER -> "none"

\* The tasks that keep t from the lock it waits for: the holders of the lock
\* and, for a reader, the writers queued before it.
BlockedBy(t) ==
    IF WaitsFor(t) = "none" THEN {}
    ELSE (Holders(WaitsFor(t)) \ {t})
         \cup (IF t[1] = "guild" /\ WaitsFor(t) = "config"
               THEN {ReadyTask(r) : r \in {x \in Reports : rpc[x] = "asrConfig"}}
               ELSE {})

\* The largest set of waiting tasks each of which is kept waiting by a task
\* of the set: none of them can ever take another step.
RECURSIVE WedgedIn(_)
WedgedIn(W) ==
    LET keep == {t \in W : BlockedBy(t) \cap W # {}}
    IN IF keep = W THEN W ELSE WedgedIn(keep)
Wedged == WedgedIn({t \in Tasks : WaitsFor(t) # "none"})

\* C12: the handlers never wedge each other: there is no set of handlers that
\* wait for locks held by one another, in particular not the shard-ready path
\* (statistics lock, then configuration write lock) with the guild-left path
\* (configuration read lock, then statistics lock), so that every handler
\* that waits for a lock can still acquire it and terminate.
C12_NeverWedged == Wedged = {}


(***************************************************************************)
(* Claims about the hook `after`.                                          *)
(***************************************************************************)
AfterReplied(c) == apc[c] \in {"metric", "post", "done"}

C13_ReplyState ==
    \A c \in Msgs :
        /\ Len(aout[c]) <= 1
        /\ AfterReplied(c) =>
              IF aerr[c]
              THEN /\ Len(aout[c]) = 1
                   /\ aout[c][1].msg = CmdFail(c)
                   /\ aregistered[c] = IF aout[c][1].ok THEN {CmdFail(c)} ELSE {}
              ELSE /\ aout[c] = <<>>
                   /\ aregistered[c] = {}

C13_ReplyStep ==
    \A c \in Msgs :
        (apc'[c] # apc[c] /\ cache' # cache) =>
            /\ aerr[c]
            /\ Len(aout[c]) = 1
            /\ aout[c][1].ok
            /\ CacheLookup(cache', c) = CmdFail(c)

\* C13: when the command ended with an error, `after` attempts exactly one
\* send of the failure reply and, when the send succeeded, inserts the reply
\* into the cache under the id of the invoking message; when the command
\* succeeded nothing is sent and the hook leaves the cache as it is, as it
\* does when the send failed.
C13_FailureReply == [](C13_ReplyState) /\ [][C13_ReplyStep]_vars

\* One command failed and its reply was sent and registered, the reply of
\* another failed command could not be sent, or a command succeeded.
C13_Witness ==
    \E c, k \in Msgs :
        /\ apc[c] = "done" /\ aerr[c] /\ aout[c][1].ok
        /\ aregistered[c] = {CmdFail(c)}
        /\ apc[k] = "done"
        /\ ~aerr[k] \/ ~aout[k][1].ok
        /\ aregistered[k] = {}

\* C14 as stated: every call of `after` emits exactly one command-executed
\* metric, whatever the outcome of the command and of the failure reply.
C14_MetricAlways ==
    \A c \in Msgs : apc[c] = "done" => executed[c] = 1

\* C14 as the code has it: command_executed is called exactly once by every
\* call of `after`, for a successful command, a failed one, and one whose
\* failure reply could not be sent, when stats.should_track() holds, and is
\* not called at all when it does not.
C14_MetricWhenTracking ==
    \A c \in Msgs :
        /\ executed[c] <= 1
        /\ apc[c] = "done" => executed[c] = IF tracking THEN 1 ELSE 0

\* With tracking on, the metric was emitted for a command whose failure reply
\* could not be sent and for a command that succeeded.
C14_Witness ==
    /\ tracking
    /\ \E c, k \in Msgs :
          /\ apc[c] = "done" /\ aerr[c] /\ ~aout[c][1].ok /\ executed[c] = 1
          /\ apc[k] = "done" /\ ~aerr[k] /\ executed[k] = 1


(***************************************************************************)
(* Handler::message_update, lines 62-81.                                   *)
(***************************************************************************)
\* handle_edit is not part of this file.  It is given the new content, the
\* author and the clone of the cached reply, and regenerates the reply from
\* the new content: the reply is rendered again and the cached snapshot is
\* replaced through the cache's mutate, which does nothing for an absent id.
Regenerated(m) == [kind |-> "edited", to |-> AuthorOf(m), key |-> m]
CacheMutate(c, id, reply) ==
    [i \in 1 .. Len(c) |-> IF c[i].id = id THEN [c[i] EXCEPT !.reply = reply]
                           ELSE c[i]]

\* Lines 74-76: handle_edit is called when the lookup found a reply and the
\* event carries a content and an author.  (EditWithoutLookup is the handler
\* that would not look at the result of the lookup.)
EditWithoutLookup(old, content, author) == content /\ author
EditApplies(old, content, author) == old # NoReply /\ content /\ author

\* The gateway reports that message u was edited; content and author are
\* optional fields of the event.
UpdateArrive(u) ==
    /\ upc[u] = "idle"
    /\ \E content \in BOOLEAN, author \in BOOLEAN :
          /\ ucontent' = [ucontent EXCEPT ![u] = content]
          /\ uauthor' = [uauthor EXCEPT ![u] = author]
    /\ upc' = [upc EXCEPT ![u] = "lock"]
    /\ UNCHANGED <<uold, ecalls>>
    /\ UNCHANGED <<sharedVars, readyVars, sessVars, beforeVars, afterVars,
                   delVars, guildVars>>

\* Lines 63-72: the cache mutex, the lookup and the clone of the reply; the
\* guard is dropped at the end of the block, before handle_edit is called.
UpdateLookup(u) ==
    /\ upc[u] = "lock"
    /\ CanLock("cache")
    /\ uold' = [uold EXCEPT ![u] = CacheLookup(cache, u)]
    /\ upc' = [upc EXCEPT ![u] =
                  IF EditApplies(CacheLookup(cache, u), ucontent[u], uauthor[u])
                  THEN "edit" ELSE "done"]
    /\ UNCHANGED <<ucontent, uauthor, ecalls>>
    /\ UNCHANGED <<sharedVars, readyVars, sessVars, beforeVars, afterVars,
                   delVars, guildVars>>

\* Line 77: handle_edit is called with the clone.
UpdateHandleEdit(u) ==
    /\ upc[u] = "edit"
    /\ ecalls' = [ecalls EXCEPT ![u] =
                     Append(@, [old |-> uold[u], afterDelete |-> dpc[u] = "done"])]
    /\ upc' = [upc EXCEPT ![u] = "store"]
    /\ UNCHANGED <<ucontent, uauthor, uold>>
    /\ UNCHANGED <<sharedVars, readyVars, sessVars, beforeVars, afterVars,
                   delVars, guildVars>>

\* The end of handle_edit: the snapshot in the cache is replaced.
UpdateStore(u) ==
    /\ upc[u] = "store"
    /\ CanLock("cache")
    /\ cache' = CacheMutate(cache, u, Regenerated(u))
    /\ upc' = [upc EXCEPT ![u] = "done"]
    /\ UNCHANGED <<locks, stats, tracking, avatarSet, blocklist>>
    /\ UNCHANGED <<ucontent, uauthor, uold, ecalls>>
    /\ UNCHANGED <<readyVars, sessVars, beforeVars, afterVars, delVars,
                   guildVars>>

\* Edit and delete notifications for replies that are in the cache already.
NextEdit ==
    \E u \in Msgs :
        \/ UpdateArrive(u)
        \/ UpdateLookup(u)
        \/ UpdateHandleEdit(u)
        \/ UpdateStore(u)
        \/ DeleteArrive(u)
        \/ DeleteLookup(u)
        \/ DeleteReply(u)

\* The caches the hooks and the message handler can have built: replies
\* under distinct ids, at most CacheCap of them.
TrackedCaches ==
    {c \in UNION {[1 .. n -> {[id |-> m, reply |-> CmdFail(m)] : m \in Msgs}] :
                     n \in 0 .. CacheCap} :
        \A i, j \in 1 .. Len(c) : c[i].id = c[j].id => i = j}

InitEdit ==
    /\ locks = [l \in LockNames |-> {}]
    /\ stats = [shards |-> 0, bootVec |-> <<>>, servers |-> 0]
    /\ avatarSet = FALSE
    /\ tracking = FALSE
    /\ blocklist = {}
    /\ cache \in TrackedCaches
    /\ InitReadyVars
    /\ InitSessVars
    /\ InitBeforeVars
    /\ InitAfterVars
    /\ InitDelVars
    /\ InitGuildVars
    /\ InitEditVars

SpecEdit == InitEdit /\ [][NextEdit]_vars

(***************************************************************************)
(* Claims about message_update.                                            *)
(***************************************************************************)
C15_EditState ==
    \A u \in Msgs :
        /\ Len(ecalls[u]) <= 1
        /\ upc[u] \in {"store", "done"} =>
              IF uold[u] # NoReply /\ ucontent[u] /\ uauthor[u]
              THEN /\ Len(ecalls[u]) = 1
                   /\ ecalls[u][1].old = uold[u]
              ELSE /\ ecalls[u] = <<>>
                   /\ upc[u] = "done"
        /\ (upc[u] = "done" /\ ecalls[u] # <<>>) =>
              CacheLookup(cache, u) =
                  IF u \in CacheIds(cache) THEN Regenerated(u) ELSE NoReply

C15_EditStep ==
    \A u \in Msgs :
        /\ (upc'[u] # upc[u] /\ uold'[u] = NoReply) =>
              /\ cache' = cache
              /\ ecalls'[u] = <<>>
              /\ upc'[u] \in {"lock", "done"}
        /\ (upc[u] = "store" /\ upc'[u] = "done") =>
              /\ u \in CacheIds(cache) => CacheLookup(cache', u) = Regenerated(u)
              /\ CacheIds(cache') = CacheIds(cache)
              /\ \A k \in Msgs \ {u} : CacheLookup(cache', k) = CacheLookup(cache, k)

C20_NoEditAfterDelete ==
    \A u \in Msgs : \A i \in 1 .. Len(ecalls[u]) : ~ecalls[u][i].afterDelete


(***************************************************************************)
(* Claims about the collection window and the independence of sessions.    *)
(***************************************************************************)
C16_WindowStep ==
    \A m \in Msgs :
        \* arming sets the deadline, and nothing moves it while the
        \* collector waits
        /\ (spc[m] = "react" /\ spc'[m] = "collect") =>
              deadline'[m] = now + Window
        /\ (spc[m] = "collect" /\ spc'[m] = "collect") =>
              deadline'[m] = deadline[m]
        \* a reaction is collected only strictly before the deadline, and
        \* the collector gives up only at or after it
        /\ collected'[m] # collected[m] =>
              (spc[m] = "collect" /\ now < deadline[m])
        /\ (spc[m] = "collect" /\ spc'[m] = "strip"
                /\ collected'[m] = NoUser) => now >= deadline[m]
        \* a marker reaction on m before the deadline confirms
        /\ (spc[m] = "collect" /\ now < deadline[m]) =>
              \A u \in Users :
                  ReactionAdd(u, "marker", m) =>
                      (collected'[m] = u /\ spc'[m] = "strip")
        \* a step that ends the wait of the collector or moves its
        \* deadline is not a reaction with another emoji
        /\ (spc[m] = "collect"
                /\ <<spc[m], collected[m], deadline[m]>>'
                       # <<spc[m], collected[m], deadline[m]>>) =>
              \A u \in Users : ~ReactionAdd(u, "other", m)

C16_WindowState ==
    \A m \in Msgs :
        /\ spc[m] = "collect" => (deadline[m] >= Window /\ deadline[m] <= now + Window)
        /\ spc[m] = "expired" => (collected[m] = NoUser /\ now >= Window)

\* C16: the collection window is a fixed deadline of 30 time units from the
\* arming of the session: a reaction with the marker emoji that arrives
\* strictly before the deadline confirms the session, one that arrives at or
\* after it does not, and a reaction with another emoji neither confirms the
\* session nor moves the deadline.
C16_FixedWindow == [](C16_WindowState) /\ [][C16_WindowStep]_vars

\* One session expired at its deadline, and another one, armed later, was
\* confirmed at that time, before its own deadline.
C16_Witness ==
    \E m, k \in Msgs :
        /\ spc[m] = "expired"
        /\ spc[k] = "strip" /\ collected[k] # NoUser
        /\ now >= Window

SessionOf(m) ==
    <<spc[m], deadline[m], collected[m], reactFailed[m], execCalls[m],
      outbox[m], registered[m]>>

C17_IndependentStep ==
    \A m \in Msgs :
        \* a step that ends the wait of the collector of m is not a
        \* reaction added to another message
        /\ (spc[m] = "collect" /\ SessionOf(m)' # SessionOf(m)) =>
              \A u \in Users, e \in Emojis, on \in Msgs \ {m} :
                  ~ReactionAdd(u, e, on)
        \* a step of the session of m changes no other session, and writes
        \* to the cache under m only
        /\ SessionOf(m)' # SessionOf(m) =>
              /\ \A k \in Msgs \ {m} : SessionOf(k)' = SessionOf(k)
              /\ cache' # cache =>
                    /\ CacheLookup(cache', m) = FailNotice(m)
                    /\ \A i \in 1 .. Len(cache') : cache'[i].reply.key = cache'[i].id

C17_KeyedState ==
    \A m \in Msgs :
        /\ \A i \in 1 .. Len(outbox[m]) :
              outbox[m][i].msg \in {Reply(m), FailNotice(m)}
        /\ registered[m] \subseteq {FailNotice(m)}

\* C17: the sessions of different messages are independent: a reaction added
\* to one message never confirms, expires or otherwise changes the session
\* of another, a step of one session changes no other session, and what a
\* session sends and writes to the cache is keyed by its own message id.
C17_SessionsIndependent == [](C17_KeyedState) /\ [][C17_IndependentStep]_vars

\* One session was confirmed and ran while the collector of another one was
\* still waiting at the same time.
C17_Witness ==
    \E a, b \in Msgs :
        /\ a # b
        /\ spc[a] \in {"completed", "failed"} /\ collected[a] # NoUser
        /\ spc[b] = "collect" /\ now < deadline[b]


(***************************************************************************)
(* Claims about the counters of the readiness barrier.                     *)
(***************************************************************************)
C19_CountState ==
    /\ ShardCount(stats) <= ExpectedShardTotal
    /\ Len(stats.bootVec) = ShardCount(stats)

C19_CountStep ==
    ShardCount(stats) = ExpectedShardTotal =>
        /\ ShardCount(stats') = ShardCount(stats)
        /\ GetBootVecSum(stats') = GetBootVecSum(stats)
        /\ stats'.bootVec = stats.bootVec

\* C19: the stored shard count never exceeds the expected total, whatever
\* reports arrive, duplicates and late replays included, and once it has
\* reached the total no shard-ready report changes the count or the sum of
\* the guild counts any more.
C19_CountBounded == [](C19_CountState) /\ [][C19_CountStep]_vars

\* The barrier has closed, every handler has run, and the handler of a
\* report that arrived after the barrier returned without counting.
C19_Witness ==
    /\ ShardCount(stats) = ExpectedShardTotal
    /\ \E r \in Reports : rpc[r] = "skipped" /\ rafter[r] = 0
    /\ \A r \in Reports : rpc[r] \notin {"idle", "lockStats"}


(***************************************************************************)
(* Guild events before and after the server count has been posted.         *)
(***************************************************************************)
\* The statistics after all_shards_ready has posted the sum of the boot
\* vector (one guild per shard), lines 47-52.
LoadedStats ==
    [shards |-> ExpectedShardTotal,
     bootVec |-> [i \in 1 .. ExpectedShardTotal |-> 1],
     servers |-> ExpectedShardTotal]

InitJoinLeave ==
    /\ locks = [l \in LockNames |-> {}]
    /\ tracking \in BOOLEAN
    /\ stats \in {[shards |-> 0, bootVec |-> <<>>, servers |-> 0]}
                    \cup (IF tracking THEN {LoadedStats} ELSE {})
    /\ avatarSet = (ServerCount(stats) > 0)
    /\ cache = <<>>
    /\ blocklist = {}
    /\ InitReadyVars
    /\ InitSessVars
    /\ InitBeforeVars
    /\ InitAfterVars
    /\ InitDelVars
    /\ InitGuildVars
    /\ InitEditVars

SpecJoinLeave == InitJoinLeave /\ [][NextJoinLeave]_vars

C18_PublishState ==
    \A g \in GuildEvents :
        \* at most one publication and one presence update, none of them
        \* with a server count of 0
        /\ Len(gpubs[g]) <= 1
        /\ Len(gpres[g]) <= 1
        /\ \A i \in 1 .. Len(gpubs[g]) : gpubs[g][i].count > 0
        /\ \A i \in 1 .. Len(gpres[g]) : gpres[g][i] > 0
        \* a handler that is past the presence update made one exactly when
        \* it attempted the publication, failed or not
        /\ gpc[g] \in {"welcome", "done"} => Len(gpres[g]) = Len(gpubs[g])
        \* a handler that attempted the publication is never kept from
        \* the presence update for good
        /\ gpc[g] = "lockShardMgr" =>
              (CanLock("shardMgr") \/ \E h \in GuildEvents : gpc[h] = "presence")

C18_PublishStep ==
    \A g \in GuildEvents :
        /\ (gpc[g] = "publish" /\ gpc'[g] # "publish") =>
              /\ gpc'[g] = "lockShardMgr"
              /\ Len(gpubs'[g]) = 1
        /\ (gpc[g] = "lockStats" /\ gpc'[g] # "lockStats") =>
              (gpc'[g] = "publish" <=> ServerCount(stats') > 0)
        /\ (gpc[g] = "presence" /\ gpc'[g] # "presence") =>
              /\ gpres'[g] = <<ServerCount(stats)>>
              /\ gpc'[g] = IF gkind[g] = "create" THEN "welcome" ELSE "done"

\* C18: in guild_create and guild_delete a failed publication of the
\* statistics is not retried and does not end the handler: the presence is
\* still updated and the handler returns; and neither handler publishes the
\* statistics or updates the presence while the stored server count is 0.
C18_PublishLoggedOnly == [](C18_PublishState) /\ [][C18_PublishStep]_vars

\* With tracking on, the publication of one handler failed and it updated
\* the presence and returned; a guild-left handler that found the count at 0
\* returned without publishing.
C18_Witness ==
    /\ tracking
    /\ ServerCount(stats) = 0
    /\ \E g, h \in GuildEvents :
          /\ gpc[g] = "done"
          /\ Len(gpubs[g]) = 1 /\ ~gpubs[g][1].ok
          /\ Len(gpres[g]) = 1
          /\ gpc[h] = "done" /\ gkind[h] = "delete"
          /\ gpubs[h] = <<>> /\ gpres[h] = <<>>

====
